---------------------------- MODULE Spec2Model ----------------------------
(***************************************************************************)
(* The admin "add car" form (AddCarForm): the draft held by the form       *)
(* library, the schema that validates it, the submit handler, the manual   *)
(* and the AI image drops with their asynchronous file reads, and the two  *)
(* remote calls (create car, extract details from an image).               *)
(*                                                                         *)
(* JavaScript values are sequences of one-character strings, so that       *)
(* length checks, parseInt, parseFloat and toString are computed and not   *)
(* assumed.  A value that is not a string starts with a tag: a number is   *)
(* <<"#number">> followed by its decimal rendering (NaN included),         *)
(* undefined is <<"#undefined">> and null is <<"#null">>.                  *)
(***************************************************************************)
EXTENDS Integers, Sequences, FiniteSets

VARIABLES
    activeTab,        \* useState("manual"): the tab shown
    uploadedImages,   \* useState([]): the data URLs sent with the car
    imageError,       \* useState(""): the message under the drop zone
    imagePreview,     \* useState(null): data URL shown on the AI tab
    uploadedAiImage,  \* useState(null): the File kept for extraction
    draft,            \* the values held by useForm
    errors,           \* formState.errors: field -> message
    currentYear,      \* what new Date().getFullYear() returns now
    isSubmitting,     \* useState(false) of the earlier form: onSubmit is running
    batches,          \* one record per onMultiImagesDrop call (its closure)
    aiReads,          \* FileReaders started by onAiImageDrop, not yet done
    toasts,           \* the notifications issued, in order
    addCar,           \* useFetch(addCar): loading, data, calls in flight
    processImage,     \* useFetch(processCarImageWithAI)
    route             \* the page shown: the form, or the listing

vars == <<activeTab, uploadedImages, imageError, imagePreview, uploadedAiImage,
          draft, errors, currentYear, isSubmitting, batches, aiReads, toasts, addCar,
          processImage, route>>

-----------------------------------------------------------------------------
(* JavaScript values *)

Undefined == <<"#undefined">>
Null == <<"#null">>
NaN == <<"#number", "N", "a", "N">>
True == <<"#true">>
False == <<"#false">>
Tags == {"#number", "#undefined", "#null", "#true", "#false"}

IsString(v) == v = <<>> \/ Head(v) \notin Tags
IsNumber(v) == v # <<>> /\ Head(v) = "#number"
isNaN(v) == v = NaN

HexLower == <<"0", "1", "2", "3", "4", "5", "6", "7", "8", "9",
              "a", "b", "c", "d", "e", "f">>
HexUpper == <<"0", "1", "2", "3", "4", "5", "6", "7", "8", "9",
              "A", "B", "C", "D", "E", "F">>
WhiteSpace == {" "}

IsRadixDigit(c, R) == \E i \in 1..R : HexLower[i] = c \/ HexUpper[i] = c
DigitValue(c) == (CHOOSE i \in 1..16 : HexLower[i] = c \/ HexUpper[i] = c) - 1

RECURSIVE NatToString(_)
NatToString(n) ==
    IF n < 10 THEN <<HexLower[n + 1]>>
    ELSE NatToString(n \div 10) \o <<HexLower[(n % 10) + 1]>>

\* Number.prototype.toString of an integer
IntToString(n) == IF n < 0 THEN <<"-">> \o NatToString(-n) ELSE NatToString(n)

\* the JavaScript number whose value is the integer n
Num(n) == <<"#number">> \o IntToString(n)

\* String(v)
toString(v) ==
    IF IsString(v) THEN v
    ELSE IF IsNumber(v) THEN Tail(v)
    ELSE IF v = Null THEN <<"n", "u", "l", "l">>
    ELSE IF v = True THEN <<"t", "r", "u", "e">>
    ELSE IF v = False THEN <<"f", "a", "l", "s", "e">>
    ELSE <<"u", "n", "d", "e", "f", "i", "n", "e", "d">>

\* ToBoolean(v) for the values a field can hold
Truthy(v) ==
    IF IsString(v) THEN v # <<>>
    ELSE IF IsNumber(v) THEN v \notin {NaN, Num(0)}
    ELSE FALSE

RECURSIVE TrimStart(_)
TrimStart(s) ==
    IF s # <<>> /\ Head(s) \in WhiteSpace THEN TrimStart(Tail(s)) ELSE s

RECURSIVE DigitPrefix(_, _)
DigitPrefix(s, R) ==
    IF s # <<>> /\ IsRadixDigit(Head(s), R)
    THEN <<Head(s)>> \o DigitPrefix(Tail(s), R)
    ELSE <<>>

RECURSIVE MathInt(_, _, _)
MathInt(z, R, acc) ==
    IF z = <<>> THEN acc ELSE MathInt(Tail(z), R, acc * R + DigitValue(Head(z)))

\* parseInt(v) with no radix argument
parseInt(v) ==
    LET S0 == TrimStart(toString(v))
        neg == S0 # <<>> /\ Head(S0) = "-"
        S1 == IF S0 # <<>> /\ Head(S0) \in {"+", "-"} THEN Tail(S0) ELSE S0
        hex == Len(S1) >= 2 /\ S1[1] = "0" /\ S1[2] \in {"x", "X"}
        R == IF hex THEN 16 ELSE 10
        S2 == IF hex THEN SubSeq(S1, 3, Len(S1)) ELSE S1
        Z == DigitPrefix(S2, R)
    IN  IF Z = <<>> THEN NaN
        ELSE Num((IF neg THEN -1 ELSE 1) * MathInt(Z, R, 0))

\* the integer a JavaScript number holds (numbers with no fraction only)
IntOf(x) ==
    LET s == Tail(x)
    IN  IF Head(s) = "-" THEN -MathInt(Tail(s), 10, 0) ELSE MathInt(s, 10, 0)

RECURSIVE Zeros(_)
Zeros(n) == IF n <= 0 THEN <<>> ELSE <<"0">> \o Zeros(n - 1)

RECURSIVE StripLeadingZeros(_)
StripLeadingZeros(s) ==
    IF Len(s) > 1 /\ Head(s) = "0" THEN StripLeadingZeros(Tail(s)) ELSE s

RECURSIVE StripTrailingZeros(_)
StripTrailingZeros(s) ==
    IF s # <<>> /\ s[Len(s)] = "0"
    THEN StripTrailingZeros(SubSeq(s, 1, Len(s) - 1))
    ELSE s

InfinityText == <<"I", "n", "f", "i", "n", "i", "t", "y">>
StartsWith(s, p) == Len(s) >= Len(p) /\ SubSeq(s, 1, Len(p)) = p

\* The decimal rendering of the digits D with the point after position p.
Whole(D, p) ==
    IF p <= 0 THEN <<"0">>
    ELSE IF p >= Len(D) THEN D \o Zeros(p - Len(D))
    ELSE SubSeq(D, 1, p)
Part(D, p) ==
    IF p <= 0 THEN Zeros(-p) \o D
    ELSE IF p >= Len(D) THEN <<>>
    ELSE SubSeq(D, p + 1, Len(D))
Rendered(sign, w, f) ==
    IF w = <<"0">> /\ f = <<>> THEN Num(0)
    ELSE <<"#number">> \o sign \o w \o (IF f = <<>> THEN <<>> ELSE <<".">> \o f)
Decimal(sign, D, p) ==
    IF D = <<>> THEN NaN
    ELSE Rendered(sign, StripLeadingZeros(Whole(D, p)), StripTrailingZeros(Part(D, p)))

\* the exponent part: e or E, an optional sign, digits; 0 when there is none
ExponentDigits(s) == MathInt(DigitPrefix(s, 10), 10, 0)
SignedExponent(s) ==
    IF s # <<>> /\ Head(s) = "-" THEN -ExponentDigits(Tail(s))
    ELSE IF s # <<>> /\ Head(s) = "+" THEN ExponentDigits(Tail(s))
    ELSE ExponentDigits(s)
ExponentOf(s) ==
    IF s # <<>> /\ Head(s) \in {"e", "E"} THEN SignedExponent(Tail(s)) ELSE 0

WithExponent(sign, int, frac, rest) ==
    Decimal(sign, int \o frac, Len(int) + ExponentOf(rest))
AfterPoint(sign, int, frac, s) ==
    WithExponent(sign, int, frac, SubSeq(s, Len(frac) + 1, Len(s)))
AfterInt(sign, int, s) ==
    IF s # <<>> /\ Head(s) = "."
    THEN AfterPoint(sign, int, DigitPrefix(Tail(s), 10), Tail(s))
    ELSE WithExponent(sign, int, <<>>, s)
Unsigned(sign, int, s) ==
    IF StartsWith(s, InfinityText) THEN <<"#number">> \o sign \o InfinityText
    ELSE AfterInt(sign, int, SubSeq(s, Len(int) + 1, Len(s)))
Signed(s) ==
    IF s # <<>> /\ Head(s) = "-" THEN Unsigned(<<"-">>, DigitPrefix(Tail(s), 10), Tail(s))
    ELSE IF s # <<>> /\ Head(s) = "+" THEN Unsigned(<<>>, DigitPrefix(Tail(s), 10), Tail(s))
    ELSE Unsigned(<<>>, DigitPrefix(s, 10), s)

\* parseFloat(v): the longest prefix that is a decimal literal.  The result is
\* rendered in plain decimal notation (JavaScript does so for magnitudes
\* between 1e-6 and 1e21; the inputs used stay well inside) and keeps every
\* digit (binary rounding is not modelled).
parseFloat(v) == Signed(TrimStart(toString(v)))

-----------------------------------------------------------------------------
(* The draft and its schema *)

\* the fields in the order of the form
FormOrder == <<"make", "model", "year", "price", "mileage", "color",
               "fuelType", "transmission", "bodyType", "seats", "status",
               "description", "featured">>
Fields == {FormOrder[i] : i \in 1..Len(FormOrder)}

AVAILABLE == <<"A", "V", "A", "I", "L", "A", "B", "L", "E">>
UNAVAILABLE == <<"U", "N">> \o AVAILABLE
SOLD == <<"S", "O", "L", "D">>
carStatuses == {AVAILABLE, UNAVAILABLE, SOLD}

defaultValues ==
    [make |-> <<>>, model |-> <<>>, year |-> <<>>, price |-> <<>>,
     mileage |-> <<>>, color |-> <<>>, fuelType |-> <<>>,
     transmission |-> <<>>, bodyType |-> <<>>, seats |-> <<>>,
     description |-> <<>>, status |-> AVAILABLE, featured |-> False]

\* the calendar year when the form is opened
FirstYear == 2025

MinYear == 1900
MinDescription == 10

\* variant: the length compared with <= instead of <
StringMinStrict(v, n, message) ==
    IF v = Undefined THEN "Required"
    ELSE IF ~IsString(v) THEN "Expected string"
    ELSE IF Len(v) <= n THEN message
    ELSE ""

\* z.string().min(n, message): the issue raised for v, "" when there is none
StringMin(v, n, message) ==
    IF v = Undefined THEN "Required"
    ELSE IF ~IsString(v) THEN "Expected string"
    ELSE IF Len(v) < n THEN message
    ELSE ""

\* variant: the upper bound computed once, when the form is opened
YearRefineFixed(val, now) ==
    LET year == parseInt(val)
    IN  ~isNaN(year) /\ IntOf(year) >= MinYear /\ IntOf(year) <= FirstYear + 1

\* the refinement of the year: the bound is read from the clock on each call
YearRefine(val, now) ==
    LET year == parseInt(val)
    IN  ~isNaN(year) /\ IntOf(year) >= MinYear /\ IntOf(year) <= now + 1

YearIssue(v, now) ==
    IF v = Undefined THEN "Required"
    ELSE IF ~IsString(v) THEN "Expected string"
    ELSE IF ~YearRefine(v, now) THEN "Valid year required"
    ELSE ""

\* the issue carFormSchema raises for field f of draft d, "" when none
FieldIssue(d, f, now) ==
    CASE f = "make" -> StringMin(d[f], 1, "Make is required")
      [] f = "model" -> StringMin(d[f], 1, "Model is required")
      [] f = "year" -> YearIssue(d[f], now)
      [] f = "price" -> StringMin(d[f], 1, "Price is required")
      [] f = "mileage" -> StringMin(d[f], 1, "Mileage is required")
      [] f = "color" -> StringMin(d[f], 1, "Color is required")
      [] f = "fuelType" -> StringMin(d[f], 1, "Fuel type is required")
      [] f = "transmission" -> StringMin(d[f], 1, "Transmission is required")
      [] f = "bodyType" -> StringMin(d[f], 1, "Body type is required")
      [] f = "seats" ->
            IF d[f] = Undefined \/ IsString(d[f]) THEN "" ELSE "Expected string"
      [] f = "description" ->
            StringMin(d[f], MinDescription,
                      "Description must be at least 10 characters")
      [] f = "status" ->
            IF d[f] \in carStatuses THEN "" ELSE "Invalid enum value"
      [] f = "featured" ->
            IF d[f] \in {True, False, Undefined} THEN "" ELSE "Expected boolean"

\* variant: the description is not checked
carFormSchemaLax(d, now) ==
    LET bad == {f \in Fields \ {"description"} : FieldIssue(d, f, now) # ""}
    IN  [f \in bad |-> FieldIssue(d, f, now)]

\* zodResolver(carFormSchema): the errors of draft d, one message per field
carFormSchema(d, now) ==
    LET bad == {f \in Fields : FieldIssue(d, f, now) # ""}
    IN  [f \in bad |-> FieldIssue(d, f, now)]

\* the values the resolver hands to onSubmit for a draft without errors
Parsed(d) ==
    [d EXCEPT !.featured = IF @ = Undefined THEN False ELSE @]

-----------------------------------------------------------------------------
(* Bounds and inputs *)

YearSpan == 1            \* how many times the calendar year may advance
MaxFiles == 1            \* files dropped on the manual zone while the form is typed
MaxUploadFiles == 3      \* files dropped in one run of the image intake alone
MaxAiDrops == 2          \* files dropped on the AI zone in one run
MaxSubmits == 2          \* simulated submissions answered with a message in one run
MaxExtracts == 1         \* extraction requests answered with a message in one run
MaxSharedDrops == 2      \* files dropped on either zone before a submission

Petrol == <<"P", "e", "t", "r", "o", "l">>
Manual == <<"M", "a", "n", "u", "a", "l">>
SUV == <<"S", "U", "V">>
TenChars == <<"g", "o", "o", "d", " ", "c", "a", "r", "s", "!">>

\* a form filled in completely and correctly
Filled ==
    [make |-> <<"T">>, model |-> <<"C">>, year |-> <<"2", "0", "2", "0">>,
     price |-> <<"1", "2", ".", "5", "0">>, mileage |-> <<"1", "5", "0">>,
     color |-> <<"R">>, fuelType |-> Petrol, transmission |-> Manual,
     bodyType |-> SUV, seats |-> <<"5">>, description |-> TenChars,
     status |-> AVAILABLE, featured |-> False]

\* what a user may enter in field f: free text in the inputs, one of the
\* options in the selects, a tick in the checkbox
Entries(f) ==
    CASE f = "year" -> {<<>>, <<"2", "0", "2", "0", "x">>, Filled.year}
      [] f \in {"price", "seats"} -> {<<>>, <<"a">>, Filled[f]}
      [] f \in {"fuelType", "transmission", "bodyType"} -> {Filled[f]}
      [] f = "status" -> carStatuses
      [] f = "featured" -> {True, False}
      [] OTHER -> {<<>>, Filled[f]}

\* the form filled in from the top down to field number k
FilledTo(k) ==
    [f \in Fields |->
        IF \E i \in 1..k : FormOrder[i] = f THEN Filled[f] ELSE defaultValues[f]]
FillingIn == {FilledTo(k) : k \in 0..Len(FormOrder)}

\* the drafts the model lets a user type: the form being filled in from the
\* top, and the filled or the empty form with one field changed
Changed(d) == UNION {{[d EXCEPT ![f] = v] : v \in Entries(f)} : f \in Fields}
Typable == FillingIn \cup Changed(Filled) \cup Changed(defaultValues)

MaxFileSize == 5 * 1024 * 1024

\* the files a user has at hand: name, size in bytes, content
SmallFile == [name |-> "a.png", size |-> 1024, data |-> "a"]
LimitFile == [name |-> "b.png", size |-> MaxFileSize, data |-> "b"]
BigFile == [name |-> "c.png", size |-> MaxFileSize + 1, data |-> "c"]
Files == {SmallFile, LimitFile, BigFile}

\* the sequences of at most n files
RECURSIVE FileSeqs(_)
FileSeqs(n) ==
    IF n <= 0 THEN {<<>>}
    ELSE FileSeqs(n - 1) \cup
         {Append(q, f) : q \in {r \in FileSeqs(n - 1) : Len(r) = n - 1}, f \in Files}

\* what the extraction service may answer
ExtractedCar ==
    [make |-> <<"H">>, model |-> <<"J">>, year |-> Num(2021),
     color |-> <<"B">>, bodyType |-> SUV, fuelType |-> Petrol,
     price |-> <<"9", "9">>, mileage |-> <<"7">>, transmission |-> Manual,
     description |-> TenChars \o <<"!">>, confidence |-> <<"#number", "0", ".", "9">>]
\* the same details with a lower confidence, and with no colour detected
ExtractedUnsure ==
    [ExtractedCar EXCEPT !.confidence = <<"#number", "0", ".", "4", "5", "5">>]
ExtractedNoColor == [ExtractedCar EXCEPT !.color = Undefined]
\* what the extraction may answer: { success, data } with or without data
ExtractResponses ==
    {[success |-> TRUE, hasData |-> TRUE, data |-> ExtractedCar],
     [success |-> TRUE, hasData |-> TRUE, data |-> ExtractedUnsure],
     [success |-> TRUE, hasData |-> TRUE, data |-> ExtractedNoColor],
     [success |-> TRUE, hasData |-> FALSE, data |-> ExtractedCar],
     [success |-> FALSE, hasData |-> FALSE, data |-> ExtractedCar]}

-----------------------------------------------------------------------------
(* useFetch(cb): { data, loading, error, fn } *)

\* the state of a hook before its first call; inflight holds the arguments
\* of the calls not yet settled
FetchIdle == [loading |-> FALSE, data |-> "undefined", error |-> "null",
              inflight |-> <<>>]

\* fn(args): setLoading(true), setError(null), then the call
FetchCall(h, args) ==
    [h EXCEPT !.loading = TRUE, !.error = "null",
              !.inflight = Append(@, args)]

\* the call resolved with response r: setData(r), setLoading(false)
FetchResolve(h, r) ==
    [h EXCEPT !.data = r, !.error = "null", !.loading = FALSE,
              !.inflight = Tail(@)]

\* the call threw e: setError(e), setLoading(false)
FetchReject(h, e) ==
    [h EXCEPT !.error = e, !.loading = FALSE, !.inflight = Tail(@)]

-----------------------------------------------------------------------------
(* The component *)

NoImageMessage == "Please upload at least one image"

Toast(level, text, about) == [level |-> level, text |-> text, about |-> about]

Init ==
    /\ activeTab = "manual"
    /\ uploadedImages = <<>>
    /\ imageError = ""
    /\ imagePreview = Null
    /\ uploadedAiImage = "null"
    /\ draft = defaultValues
    /\ errors = <<>>
    /\ currentYear = FirstYear
    /\ isSubmitting = FALSE
    /\ batches = <<>>
    /\ aiReads = <<>>
    /\ toasts = <<>>
    /\ addCar = FetchIdle
    /\ processImage = FetchIdle
    /\ route = "create"

\* the calendar year advances while the form is open
AdvanceYear ==
    /\ currentYear < FirstYear + YearSpan
    /\ currentYear' = currentYear + 1
    /\ UNCHANGED <<activeTab, uploadedImages, imageError, imagePreview,
                   uploadedAiImage, draft, errors, isSubmitting, batches,
                   aiReads, toasts, addCar, processImage, route>>

\* the user changes field f to v: register(f) onChange, or setValue(f, v)
\* from a select or the checkbox
SetField(f, v) ==
    /\ route = "create"
    /\ activeTab = "manual"
    /\ draft[f] # v
    /\ draft' = [draft EXCEPT ![f] = v]
    /\ UNCHANGED <<activeTab, uploadedImages, imageError, imagePreview,
                   uploadedAiImage, errors, currentYear, isSubmitting, batches, aiReads,
                   toasts, addCar, processImage, route>>

\* variant: each tab keeps images of its own, and a switch starts from none
SetActiveTabOwnImages(t) ==
    /\ route = "create"
    /\ activeTab # t
    /\ activeTab' = t
    /\ uploadedImages' = <<>>
    /\ UNCHANGED <<imageError, imagePreview, uploadedAiImage, draft, errors,
                   currentYear, isSubmitting, batches, aiReads, toasts,
                   addCar, processImage, route>>

\* onValueChange={setActiveTab}
\* onValueChange={setActiveTab}
SetActiveTab(t) ==
    /\ route = "create"
    /\ activeTab # t
    /\ activeTab' = t
    /\ UNCHANGED <<uploadedImages, imageError, imagePreview, uploadedAiImage,
                   draft, errors, currentYear, isSubmitting, batches, aiReads, toasts,
                   addCar, processImage, route>>

\* the carData onSubmit builds from the validated values
CarData(data) ==
    [data EXCEPT !.year = parseInt(data.year),
                 !.price = parseFloat(data.price),
                 !.mileage = parseInt(data.mileage),
                 !.seats = IF Truthy(data.seats) THEN parseInt(data.seats)
                           ELSE Null]

\* variant: no check of the image list
onSubmitUnchecked(data) ==
    /\ addCar' = FetchCall(addCar, [carData |-> CarData(data),
                                    images |-> uploadedImages])
    /\ UNCHANGED imageError

\* variant: an empty image list blocks the call without a message
onSubmitSilent(data) ==
    IF Len(uploadedImages) = 0
    THEN UNCHANGED <<imageError, addCar>>
    ELSE /\ addCar' = FetchCall(addCar, [carData |-> CarData(data),
                                         images |-> uploadedImages])
         /\ UNCHANGED imageError

\* onSubmit(data), called by handleSubmit with the validated values
onSubmit(data) ==
    IF Len(uploadedImages) = 0
    THEN /\ imageError' = NoImageMessage
         /\ UNCHANGED addCar
    ELSE /\ addCar' = FetchCall(addCar, [carData |-> CarData(data),
                                         images |-> uploadedImages])
         /\ UNCHANGED imageError

\* variant of handleSubmit(onSubmit): the submit button stays enabled while
\* a create-car call is pending
HandleSubmitEnabled ==
    /\ route = "create"
    /\ activeTab = "manual"
    /\ errors' = carFormSchema(draft, currentYear)
    /\ IF DOMAIN carFormSchema(draft, currentYear) = {}
       THEN onSubmit(Parsed(draft))
       ELSE UNCHANGED <<imageError, addCar>>
    /\ UNCHANGED <<activeTab, uploadedImages, imagePreview, uploadedAiImage,
                   draft, currentYear, isSubmitting, batches, aiReads, toasts,
                   processImage, route>>

\* the form is submitted: handleSubmit(onSubmit) runs the resolver, stores
\* the errors and calls onSubmit only when there are none.  The submit
\* button is disabled while addCarLoading.
HandleSubmit ==
    /\ route = "create"
    /\ activeTab = "manual"
    /\ ~addCar.loading
    /\ errors' = carFormSchema(draft, currentYear)
    /\ IF DOMAIN carFormSchema(draft, currentYear) = {}
       THEN onSubmit(Parsed(draft))
       ELSE UNCHANGED <<imageError, addCar>>
    /\ UNCHANGED <<activeTab, uploadedImages, imagePreview, uploadedAiImage,
                   draft, currentYear, isSubmitting, batches, aiReads, toasts,
                   processImage, route>>

\* the create-car call resolves with { success }: the effect on addCarResult
\* shows the success toast and goes to the listing
AddCarResolve(success) ==
    /\ route = "create"
    /\ addCar.inflight # <<>>
    /\ addCar' = FetchResolve(addCar, IF success THEN "success" ELSE "failure")
    /\ IF success
       THEN /\ toasts' = Append(toasts, Toast("success", "Car added successfully", 0))
            /\ route' = "list"
       ELSE UNCHANGED <<toasts, route>>
    /\ UNCHANGED <<activeTab, uploadedImages, imageError, imagePreview,
                   uploadedAiImage, draft, errors, currentYear, isSubmitting, batches,
                   aiReads, processImage>>

\* the create-car call throws
AddCarReject ==
    /\ route = "create"
    /\ addCar.inflight # <<>>
    /\ addCar' = FetchReject(addCar, "Error")
    /\ UNCHANGED <<activeTab, uploadedImages, imageError, imagePreview,
                   uploadedAiImage, draft, errors, currentYear, isSubmitting, batches,
                   aiReads, toasts, processImage, route>>

\* reader.readAsDataURL(file): the data URL of the file's content
DataURL(file) == <<"data:image;base64,", file.data>>

\* variant: a file of exactly the limit is skipped too
OversizeInclusive(file) == file.size >= MaxFileSize

\* the test of acceptedFiles.filter: a file over the limit is skipped
Oversize(file) == file.size > MaxFileSize

\* variant: no file is filtered out
WithinLimitAny(file) == TRUE

\* the files kept by acceptedFiles.filter
WithinLimit(file) == ~Oversize(file)

\* files are dropped on the manual drop zone: one warning per oversize file,
\* and a FileReader is started for each of the others
OnMultiImagesDrop(acceptedFiles) ==
    LET b == Len(batches) + 1
        validFiles == SelectSeq(acceptedFiles, WithinLimit)
        skipped == SelectSeq(acceptedFiles, Oversize)
    IN  /\ route = "create"
        /\ activeTab = "manual"
        /\ toasts' = toasts \o [i \in 1..Len(skipped) |->
                                  Toast("error", "exceeds 5MB limit", b)]
        /\ batches' = Append(batches,
                [files |-> acceptedFiles, validFiles |-> validFiles,
                 newImages |-> <<>>,
                 reads |-> [i \in 1..Len(validFiles) |-> "reading"]])
        /\ UNCHANGED <<activeTab, uploadedImages, imageError, imagePreview,
                       uploadedAiImage, draft, errors, currentYear, isSubmitting, aiReads,
                       addCar, processImage, route>>

\* variant: the drop is complete once none of its reads is pending, failed
\* reads included
ReaderOnLoadSettled(b, i) ==
    LET batch == batches[b]
        newImages == Append(batch.newImages, DataURL(batch.validFiles[i]))
    IN  /\ route = "create"
        /\ batch.reads[i] = "reading"
        /\ batches' = [batches EXCEPT ![b].newImages = newImages,
                                      ![b].reads[i] = "loaded"]
        /\ IF \A j \in 1..Len(batch.reads) : j = i \/ batch.reads[j] # "reading"
           THEN /\ uploadedImages' = uploadedImages \o newImages
                /\ imageError' = ""
                /\ toasts' = Append(toasts,
                                    Toast("success", "Uploaded images successfully", b))
           ELSE UNCHANGED <<uploadedImages, imageError, toasts>>
        /\ UNCHANGED <<activeTab, imagePreview, uploadedAiImage, draft, errors,
                       currentYear, isSubmitting, aiReads, addCar, processImage, route>>

\* variant: the images of a completed drop are put before those in the list
ReaderOnLoadPrepend(b, i) ==
    LET batch == batches[b]
        newImages == Append(batch.newImages, DataURL(batch.validFiles[i]))
    IN  /\ route = "create"
        /\ batch.reads[i] = "reading"
        /\ batches' = [batches EXCEPT ![b].newImages = newImages,
                                      ![b].reads[i] = "loaded"]
        /\ IF Len(newImages) = Len(batch.validFiles)
           THEN /\ uploadedImages' = newImages \o uploadedImages
                /\ imageError' = ""
                /\ toasts' = Append(toasts,
                                    Toast("success", "Uploaded images successfully", b))
           ELSE UNCHANGED <<uploadedImages, imageError, toasts>>
        /\ UNCHANGED <<activeTab, imagePreview, uploadedAiImage, draft, errors,
                       currentYear, isSubmitting, aiReads, addCar, processImage, route>>

\* variant: one newImages array shared by all drops (kept with the first)
ReaderOnLoadShared(b, i) ==
    LET batch == batches[b]
        newImages == Append(batches[1].newImages, DataURL(batch.validFiles[i]))
    IN  /\ route = "create"
        /\ batch.reads[i] = "reading"
        /\ batches' = [batches EXCEPT ![1].newImages = newImages,
                                      ![b].reads[i] = "loaded"]
        /\ IF Len(newImages) = Len(batch.validFiles)
           THEN /\ uploadedImages' = uploadedImages \o newImages
                /\ imageError' = ""
                /\ toasts' = Append(toasts,
                                    Toast("success", "Uploaded images successfully", b))
           ELSE UNCHANGED <<uploadedImages, imageError, toasts>>
        /\ UNCHANGED <<activeTab, imagePreview, uploadedAiImage, draft, errors,
                       currentYear, isSubmitting, aiReads, addCar, processImage, route>>

\* variant: each image is appended to the list as soon as it is read
ReaderOnLoadEager(b, i) ==
    LET batch == batches[b]
        newImages == Append(batch.newImages, DataURL(batch.validFiles[i]))
    IN  /\ route = "create"
        /\ batch.reads[i] = "reading"
        /\ batches' = [batches EXCEPT ![b].newImages = newImages,
                                      ![b].reads[i] = "loaded"]
        /\ uploadedImages' = Append(uploadedImages, DataURL(batch.validFiles[i]))
        /\ IF Len(newImages) = Len(batch.validFiles)
           THEN /\ imageError' = ""
                /\ toasts' = Append(toasts,
                                    Toast("success", "Uploaded images successfully", b))
           ELSE UNCHANGED <<imageError, toasts>>
        /\ UNCHANGED <<activeTab, imagePreview, uploadedAiImage, draft, errors,
                       currentYear, isSubmitting, aiReads, addCar, processImage, route>>

\* reader.onload of file number i of drop b: the image joins newImages, and
\* the read that fills newImages appends them all to the list
ReaderOnLoad(b, i) ==
    LET batch == batches[b]
        newImages == Append(batch.newImages, DataURL(batch.validFiles[i]))
    IN  /\ route = "create"
        /\ batch.reads[i] = "reading"
        /\ batches' = [batches EXCEPT ![b].newImages = newImages,
                                      ![b].reads[i] = "loaded"]
        /\ IF Len(newImages) = Len(batch.validFiles)
           THEN /\ uploadedImages' = uploadedImages \o newImages
                /\ imageError' = ""
                /\ toasts' = Append(toasts,
                                    Toast("success", "Uploaded images successfully", b))
           ELSE UNCHANGED <<uploadedImages, imageError, toasts>>
        /\ UNCHANGED <<activeTab, imagePreview, uploadedAiImage, draft, errors,
                       currentYear, isSubmitting, aiReads, addCar, processImage, route>>

\* the read of file number i of drop b fails: no onerror handler is set
ReaderOnError(b, i) ==
    /\ route = "create"
    /\ batches[b].reads[i] = "reading"
    /\ batches' = [batches EXCEPT ![b].reads[i] = "failed"]
    /\ UNCHANGED <<activeTab, uploadedImages, imageError, imagePreview,
                   uploadedAiImage, draft, errors, currentYear, isSubmitting, aiReads,
                   toasts, addCar, processImage, route>>

\* variant: the index compared as if counted from 1
FilterOutIndexFromOne(prev, indexToRemove) ==
    LET keep == {k \in 1..Len(prev) : k # indexToRemove}
        Pos(n) == CHOOSE k \in keep : Cardinality({j \in keep : j <= k}) = n
    IN  [n \in 1..Cardinality(keep) |-> prev[Pos(n)]]

\* prev.filter((_, index) => index !== indexToRemove), indexes from 0
FilterOutIndex(prev, indexToRemove) ==
    LET keep == {k \in 1..Len(prev) : k - 1 # indexToRemove}
        Pos(n) == CHOOSE k \in keep : Cardinality({j \in keep : j <= k}) = n
    IN  [n \in 1..Cardinality(keep) |-> prev[Pos(n)]]

\* the X button of image number indexToRemove of the gallery
removeImage(indexToRemove) ==
    /\ route = "create"
    /\ activeTab = "manual"
    /\ indexToRemove \in 0..(Len(uploadedImages) - 1)
    /\ uploadedImages' = FilterOutIndex(uploadedImages, indexToRemove)
    /\ imageError' = IF Len(uploadedImages) - 1 = 0 THEN NoImageMessage
                     ELSE imageError
    /\ UNCHANGED <<activeTab, imagePreview, uploadedAiImage, draft, errors,
                   currentYear, isSubmitting, batches, aiReads, toasts, addCar,
                   processImage, route>>

\* variant: a file of exactly the limit is refused
OnAiImageDropInclusive(file) ==
    /\ route = "create"
    /\ activeTab = "ai"
    /\ imagePreview = Null
    /\ IF file.size >= MaxFileSize
       THEN /\ toasts' = Append(toasts, Toast("error", "Image exceeds 5MB limit", 0))
            /\ UNCHANGED <<uploadedAiImage, aiReads>>
       ELSE /\ uploadedAiImage' = file.name
            /\ aiReads' = Append(aiReads, file)
            /\ toasts' = Append(toasts,
                                Toast("success", "Image uploaded for AI processing", 0))
    /\ UNCHANGED <<activeTab, uploadedImages, imageError, imagePreview, draft,
                   errors, currentYear, isSubmitting, batches, addCar, processImage, route>>

\* a file is dropped on the AI drop zone, shown while there is no preview
OnAiImageDrop(file) ==
    /\ route = "create"
    /\ activeTab = "ai"
    /\ imagePreview = Null
    /\ IF file.size > MaxFileSize
       THEN /\ toasts' = Append(toasts, Toast("error", "Image exceeds 5MB limit", 0))
            /\ UNCHANGED <<uploadedAiImage, aiReads>>
       ELSE /\ uploadedAiImage' = file.name
            /\ aiReads' = Append(aiReads, file)
            /\ toasts' = Append(toasts,
                                Toast("success", "Image uploaded for AI processing", 0))
    /\ UNCHANGED <<activeTab, uploadedImages, imageError, imagePreview, draft,
                   errors, currentYear, isSubmitting, batches, addCar, processImage, route>>

RemoveAt(q, k) == SubSeq(q, 1, k - 1) \o SubSeq(q, k + 1, Len(q))

\* variant of the AI reader.onload: the image is previewed but not added to
\* the list
AiReaderOnLoadPreviewOnly(k) ==
    /\ route = "create"
    /\ k \in 1..Len(aiReads)
    /\ imagePreview' = DataURL(aiReads[k])
    /\ aiReads' = RemoveAt(aiReads, k)
    /\ UNCHANGED <<activeTab, uploadedImages, imageError, uploadedAiImage,
                   draft, errors, currentYear, isSubmitting, batches, toasts,
                   addCar, processImage, route>>

\* reader.onload of an AI drop: the preview is set and the image is added to
\* the list sent with the car
AiReaderOnLoad(k) ==
    /\ route = "create"
    /\ k \in 1..Len(aiReads)
    /\ imagePreview' = DataURL(aiReads[k])
    /\ uploadedImages' = Append(uploadedImages, DataURL(aiReads[k]))
    /\ aiReads' = RemoveAt(aiReads, k)
    /\ UNCHANGED <<activeTab, imageError, uploadedAiImage, draft, errors,
                   currentYear, isSubmitting, batches, toasts, addCar, processImage, route>>

\* the read of an AI drop fails
AiReaderOnError(k) ==
    /\ route = "create"
    /\ k \in 1..Len(aiReads)
    /\ aiReads' = RemoveAt(aiReads, k)
    /\ UNCHANGED <<activeTab, uploadedImages, imageError, imagePreview,
                   uploadedAiImage, draft, errors, currentYear, isSubmitting, batches,
                   toasts, addCar, processImage, route>>

\* prev.filter(img => img !== imagePreview)
FilterOutValue(prev, img) == SelectSeq(prev, LAMBDA x : x # img)

\* the X button of the AI preview
RemoveAiImage ==
    /\ route = "create"
    /\ activeTab = "ai"
    /\ imagePreview # Null
    /\ imagePreview' = Null
    /\ uploadedAiImage' = "null"
    /\ uploadedImages' = FilterOutValue(uploadedImages, imagePreview)
    /\ UNCHANGED <<activeTab, imageError, draft, errors, currentYear, isSubmitting, batches,
                   aiReads, toasts, addCar, processImage, route>>

\* variant: the stored file is not checked before the call
processWithAIUnguarded ==
    /\ route = "create"
    /\ activeTab = "ai"
    /\ imagePreview # Null
    /\ ~processImage.loading
    /\ processImage' = FetchCall(processImage, uploadedAiImage)
    /\ UNCHANGED <<activeTab, uploadedImages, imageError, imagePreview,
                   uploadedAiImage, draft, errors, currentYear, isSubmitting, batches,
                   aiReads, toasts, addCar, route>>

\* processWithAI, run from the "Extract Car Details with AI" button, which is
\* shown with the preview and disabled while a call is pending.  The button
\* is also disabled while no file is stored; the handler makes that check
\* itself, and it is the handler's check that is modelled.
processWithAI ==
    /\ route = "create"
    /\ activeTab = "ai"
    /\ imagePreview # Null
    /\ ~processImage.loading
    /\ IF uploadedAiImage = "null"
       THEN /\ toasts' = Append(toasts,
                                Toast("error", "Please upload an image first", 0))
            /\ UNCHANGED processImage
       ELSE /\ processImage' = FetchCall(processImage, uploadedAiImage)
            /\ UNCHANGED toasts
    /\ UNCHANGED <<activeTab, uploadedImages, imageError, imagePreview,
                   uploadedAiImage, draft, errors, currentYear, isSubmitting, batches,
                   aiReads, addCar, route>>

\* Math.round(confidence * 100) of the toast's description, -1 for NaN
Percent(confidence) ==
    IF ~IsNumber(confidence) \/ confidence = NaN THEN -1
    ELSE LET s == Tail(confidence)
             point == IF \E i \in 1..Len(s) : s[i] = "."
                      THEN CHOOSE i \in 1..Len(s) : s[i] = "."
                      ELSE Len(s) + 1
             places == SubSeq(s, point + 1, Len(s)) \o <<"0", "0", "0">>
         IN  MathInt(SubSeq(s, 1, point - 1) \o SubSeq(places, 1, 2), 10, 0)
                + (IF DigitValue(places[3]) >= 5 THEN 1 ELSE 0)

\* variant: a low confidence keeps the description out of the draft
ExtractedDraftScored(d, carDetails) ==
    [d EXCEPT !.make = carDetails.make,
              !.model = carDetails.model,
              !.year = toString(carDetails.year),
              !.color = carDetails.color,
              !.bodyType = carDetails.bodyType,
              !.fuelType = carDetails.fuelType,
              !.price = carDetails.price,
              !.mileage = carDetails.mileage,
              !.transmission = carDetails.transmission,
              !.description = IF Percent(carDetails.confidence) < 50
                              THEN <<>> ELSE carDetails.description]

\* the setValue calls of the effect on processImageResult
ExtractedDraft(d, carDetails) ==
    [d EXCEPT !.make = carDetails.make,
              !.model = carDetails.model,
              !.year = toString(carDetails.year),
              !.color = carDetails.color,
              !.bodyType = carDetails.bodyType,
              !.fuelType = carDetails.fuelType,
              !.price = carDetails.price,
              !.mileage = carDetails.mileage,
              !.transmission = carDetails.transmission,
              !.description = carDetails.description]

\* variant: the tab is left as it is
ProcessImageResolveStay(r) ==
    /\ route = "create"
    /\ processImage.inflight # <<>>
    /\ processImage' = FetchResolve(processImage,
                                     IF r.success THEN "success" ELSE "failure")
    /\ IF r.success /\ r.hasData
       THEN /\ draft' = ExtractedDraft(draft, r.data)
            /\ toasts' = Append(toasts,
                    Toast("success", "Successfully extracted car details",
                          Percent(r.data.confidence)))
       ELSE UNCHANGED <<draft, toasts>>
    /\ UNCHANGED <<activeTab, uploadedImages, imageError, imagePreview,
                   uploadedAiImage, errors, currentYear, isSubmitting, batches, aiReads,
                   addCar, route>>

\* the extraction call resolves with response r: on success the effect writes
\* the draft, shows a toast (its description gives the confidence) and
\* switches to the manual tab
ProcessImageResolve(r) ==
    /\ route = "create"
    /\ processImage.inflight # <<>>
    /\ processImage' = FetchResolve(processImage,
                                     IF r.success THEN "success" ELSE "failure")
    /\ IF r.success /\ r.hasData
       THEN /\ draft' = ExtractedDraft(draft, r.data)
            /\ toasts' = Append(toasts,
                    Toast("success", "Successfully extracted car details",
                          Percent(r.data.confidence)))
            /\ activeTab' = "manual"
       ELSE UNCHANGED <<draft, toasts, activeTab>>
    /\ UNCHANGED <<uploadedImages, imageError, imagePreview, uploadedAiImage,
                   errors, currentYear, isSubmitting, batches, aiReads, addCar, route>>

\* variant: the error is not shown
ProcessImageRejectSilent ==
    /\ route = "create"
    /\ processImage.inflight # <<>>
    /\ processImage' = FetchReject(processImage, "Error")
    /\ UNCHANGED <<activeTab, uploadedImages, imageError, imagePreview,
                   uploadedAiImage, draft, errors, currentYear, isSubmitting, batches,
                   aiReads, toasts, addCar, route>>

\* the extraction call throws: the effect on processImageError shows it
ProcessImageReject ==
    /\ route = "create"
    /\ processImage.inflight # <<>>
    /\ processImage' = FetchReject(processImage, "Error")
    /\ toasts' = Append(toasts, Toast("error", "Failed to process car image", 0))
    /\ UNCHANGED <<activeTab, uploadedImages, imageError, imagePreview,
                   uploadedAiImage, draft, errors, currentYear, isSubmitting, batches,
                   aiReads, addCar, route>>

\* the files dropped on the manual zone so far, and on the AI zone
RECURSIVE DroppedIn(_)
DroppedIn(q) == IF q = <<>> THEN 0 ELSE Len(Head(q).files) + DroppedIn(Tail(q))
Dropped == DroppedIn(batches)
AiDropTexts == {"Image exceeds 5MB limit", "Image uploaded for AI processing"}
AiDropped == Cardinality({i \in 1..Len(toasts) : toasts[i].text \in AiDropTexts})

\* the reads that may complete or fail
ReaderSteps ==
    \/ \E b \in 1..Len(batches) :
          \E i \in 1..Len(batches[b].validFiles) : ReaderOnLoad(b, i)
    \/ \E b \in 1..Len(batches) :
          \E i \in 1..Len(batches[b].validFiles) : ReaderOnError(b, i)

\* the whole component
NextAll ==
    \/ AdvanceYear
    \/ \E f \in Fields : \E v \in Entries(f) :
          [draft EXCEPT ![f] = v] \in Typable /\ SetField(f, v)
    \/ \E t \in {"manual", "ai"} : SetActiveTab(t)
    \/ HandleSubmit
    \/ \E success \in BOOLEAN : AddCarResolve(success)
    \/ AddCarReject
    \/ \E q \in FileSeqs(MaxFiles - Dropped) \ {<<>>} : OnMultiImagesDrop(q)
    \/ ReaderSteps
    \/ \E i \in 0..(Len(uploadedImages) - 1) : removeImage(i)
    \/ AiDropped < MaxAiDrops /\ \E file \in Files : OnAiImageDrop(file)
    \/ \E k \in 1..Len(aiReads) : AiReaderOnLoad(k)
    \/ \E k \in 1..Len(aiReads) : AiReaderOnError(k)
    \/ RemoveAiImage
    \/ processWithAI
    \/ \E r \in ExtractResponses : ProcessImageResolve(r)
    \/ Len(toasts) < MaxAiDrops + 2 /\ ProcessImageReject

SpecAll == Init /\ [][NextAll]_vars

\* the AI tab: the drop of the image, its read, its removal, the extraction,
\* and the removal by index of what the reads put in the list
ExtractTexts == {"Successfully extracted car details",
                 "Failed to process car image",
                 "Please upload an image first"}
Extracted == Cardinality({i \in 1..Len(toasts) : toasts[i].text \in ExtractTexts})
AiDrafts == {defaultValues, Filled}
InitAi ==
    /\ activeTab = "manual"
    /\ uploadedImages = <<>>
    /\ imageError = ""
    /\ imagePreview = Null
    /\ uploadedAiImage = "null"
    /\ draft \in AiDrafts
    /\ errors = <<>>
    /\ currentYear = FirstYear
    /\ isSubmitting = FALSE
    /\ batches = <<>>
    /\ aiReads = <<>>
    /\ toasts = <<>>
    /\ addCar = FetchIdle
    /\ processImage = FetchIdle
    /\ route = "create"
NextAi ==
    \/ \E t \in {"manual", "ai"} : SetActiveTab(t)
    \/ AiDropped < MaxAiDrops /\ \E file \in Files : OnAiImageDrop(file)
    \/ \E k \in 1..Len(aiReads) : AiReaderOnLoad(k)
    \/ \E k \in 1..Len(aiReads) : AiReaderOnError(k)
    \/ RemoveAiImage
    \/ \E i \in 0..(Len(uploadedImages) - 1) : removeImage(i)
    \/ Extracted < MaxExtracts /\ processWithAI
    \/ \E r \in ExtractResponses : ProcessImageResolve(r)
    \/ ProcessImageReject
SpecAi == InitAi /\ [][NextAi]_vars

\* the two drop zones and their reads
NextDrop ==
    \/ \E t \in {"manual", "ai"} : SetActiveTab(t)
    \/ \E q \in FileSeqs(MaxFiles - Dropped) \ {<<>>} : OnMultiImagesDrop(q)
    \/ ReaderSteps
    \/ AiDropped < MaxAiDrops /\ \E file \in Files : OnAiImageDrop(file)
    \/ \E k \in 1..Len(aiReads) : AiReaderOnLoad(k)
    \/ \E k \in 1..Len(aiReads) : AiReaderOnError(k)
SpecDrop == Init /\ [][NextDrop]_vars

\* both upload flows over the one image list, and the submission of what
\* they left there
InitShared ==
    /\ activeTab = "manual"
    /\ uploadedImages = <<>>
    /\ imageError = ""
    /\ imagePreview = Null
    /\ uploadedAiImage = "null"
    /\ draft = Filled
    /\ errors = <<>>
    /\ currentYear = FirstYear
    /\ isSubmitting = FALSE
    /\ batches = <<>>
    /\ aiReads = <<>>
    /\ toasts = <<>>
    /\ addCar = FetchIdle
    /\ processImage = FetchIdle
    /\ route = "create"
NextShared ==
    \/ \E t \in {"manual", "ai"} : SetActiveTab(t)
    \/ \E q \in FileSeqs(MaxSharedDrops - Dropped - AiDropped) \ {<<>>} :
          OnMultiImagesDrop(q)
    \/ \E b \in 1..Len(batches) :
          \E i \in 1..Len(batches[b].validFiles) : ReaderOnLoad(b, i)
    \/ Dropped + AiDropped < MaxSharedDrops /\ \E file \in Files : OnAiImageDrop(file)
    \/ \E k \in 1..Len(aiReads) : AiReaderOnLoad(k)
    \/ RemoveAiImage
    \/ HandleSubmit
    \/ \E success \in BOOLEAN : AddCarResolve(success)
    \/ AddCarReject
SpecShared == InitShared /\ [][NextShared]_vars

-----------------------------------------------------------------------------
(* The earlier form, whose submission is simulated (route "simulated") *)

\* the try, catch and finally blocks of the earlier form's onSubmit, with
\* the image list left as it is after the reset
onSubmitSimulatedKeepImages(thrown) ==
    /\ IF thrown
       THEN /\ toasts' = Append(toasts,
                   Toast("error", "Failed to add car. Please try again.", 0))
            /\ UNCHANGED <<draft, uploadedImages>>
       ELSE /\ toasts' = Append(toasts,
                   Toast("success", "Car added successfully!", 0))
            /\ draft' = defaultValues
            /\ UNCHANGED uploadedImages
    /\ isSubmitting' = FALSE

\* the same blocks with setIsSubmitting(false) as the last statement of the
\* try block instead of a finally block
onSubmitSimulatedNoFinally(thrown) ==
    IF thrown
    THEN /\ toasts' = Append(toasts,
                Toast("error", "Failed to add car. Please try again.", 0))
         /\ UNCHANGED <<draft, uploadedImages, isSubmitting>>
    ELSE /\ toasts' = Append(toasts, Toast("success", "Car added successfully!", 0))
         /\ draft' = defaultValues
         /\ uploadedImages' = <<>>
         /\ isSubmitting' = FALSE

\* the image check of the earlier form's onSubmit and setIsSubmitting(true)
onSubmitSimulatedCheck ==
    IF Len(uploadedImages) = 0
    THEN /\ imageError' = NoImageMessage
         /\ UNCHANGED isSubmitting
    ELSE /\ isSubmitting' = TRUE
         /\ UNCHANGED imageError

\* the try, catch and finally blocks of the earlier form's onSubmit.
\* thrown: the try block throws before the reset, and the catch block
\* reports it.
onSubmitSimulated(thrown) ==
    /\ IF thrown
       THEN /\ toasts' = Append(toasts,
                   Toast("error", "Failed to add car. Please try again.", 0))
            /\ UNCHANGED <<draft, uploadedImages>>
       ELSE /\ toasts' = Append(toasts,
                   Toast("success", "Car added successfully!", 0))
            /\ draft' = defaultValues
            /\ uploadedImages' = <<>>
    /\ isSubmitting' = FALSE

\* handleSubmit(onSubmit) of the earlier form, up to setIsSubmitting(true);
\* the button is disabled while isSubmitting
HandleSubmitSimulated ==
    /\ route = "simulated"
    /\ activeTab = "manual"
    /\ ~isSubmitting
    /\ errors' = carFormSchema(draft, currentYear)
    /\ IF DOMAIN carFormSchema(draft, currentYear) = {}
       THEN onSubmitSimulatedCheck
       ELSE UNCHANGED <<imageError, isSubmitting>>
    /\ UNCHANGED <<activeTab, uploadedImages, imagePreview, uploadedAiImage,
                   draft, currentYear, batches, aiReads, toasts, addCar,
                   processImage, route>>

\* onSubmit of the earlier form goes on after setIsSubmitting(true): it has
\* no await, so nothing else runs before its finally block
SimulatedSubmitRuns(thrown) ==
    /\ route = "simulated"
    /\ isSubmitting
    /\ onSubmitSimulated(thrown)
    /\ UNCHANGED <<activeTab, imageError, imagePreview, uploadedAiImage,
                   errors, currentYear, batches, aiReads, addCar,
                   processImage, route>>

\* a submission in either form, from a draft that was typed and images that
\* were read
ImageLists == {<<>>, <<DataURL(SmallFile)>>,
               <<DataURL(SmallFile), DataURL(LimitFile)>>}
InitSubmit ==
    /\ activeTab = "manual"
    /\ uploadedImages \in ImageLists
    /\ imageError = ""
    /\ imagePreview = Null
    /\ uploadedAiImage = "null"
    /\ draft \in Typable
    /\ errors = <<>>
    /\ currentYear = FirstYear
    /\ isSubmitting = FALSE
    /\ batches = <<>>
    /\ aiReads = <<>>
    /\ toasts = <<>>
    /\ addCar = FetchIdle
    /\ processImage = FetchIdle
    /\ route \in {"create", "simulated"}
SimulatedSubmitStep ==
    \E thrown \in BOOLEAN : Len(toasts) < MaxSubmits /\ SimulatedSubmitRuns(thrown)
NextSubmit ==
    \/ HandleSubmit
    \/ \E success \in BOOLEAN : AddCarResolve(success)
    \/ AddCarReject
    \/ Len(toasts) < MaxSubmits /\ HandleSubmitSimulated
    \/ SimulatedSubmitStep
SpecSubmit == InitSubmit /\ [][NextSubmit]_vars

\* the same submissions, where a running onSubmit runs to its end: a handler
\* without await is never suspended
SpecSubmitFair ==
    SpecSubmit /\ WF_vars(SimulatedSubmitStep)

\* manual entry: the form is typed in, images are dropped on the manual zone
\* and removed, and the form is submitted
Next ==
    \/ \E f \in Fields : \E v \in Entries(f) :
          [draft EXCEPT ![f] = v] \in Typable /\ SetField(f, v)
    \/ HandleSubmit
    \/ \E success \in BOOLEAN : AddCarResolve(success)
    \/ AddCarReject
    \/ \E q \in FileSeqs(MaxFiles - Dropped) \ {<<>>} : OnMultiImagesDrop(q)
    \/ ReaderSteps
    \/ \E i \in 0..(Len(uploadedImages) - 1) : removeImage(i)

\* the image intake alone: drops on the manual zone, their reads, removals
NextUpload ==
    \/ \E q \in FileSeqs(MaxUploadFiles - Dropped) \ {<<>>} : OnMultiImagesDrop(q)
    \/ ReaderSteps
    \/ \E i \in 0..(Len(uploadedImages) - 1) : removeImage(i)

SpecUpload == Init /\ [][NextUpload]_vars

Spec == Init /\ [][Next]_vars

-----------------------------------------------------------------------------
(* Validation alone: any draft, validated as the years pass *)

RequiredFields == {"make", "model", "year", "price", "mileage", "color",
                   "fuelType", "transmission", "bodyType", "description"}

\* the years tried in the year field
YearProbes == {-1, 0, MinYear - 1, MinYear, MinYear + 1}
              \cup ((FirstYear - 1)..(FirstYear + YearSpan + 2))

\* the values tried in field f
Probes(f) ==
    CASE f = "year" ->
            {<<>>, Undefined, Num(2020), <<"a">>, <<"2", "0", "2", "0", "x">>,
             <<" ", "2", "0", "2", "0">>, <<"0", "x", "7", "E", "4">>}
            \cup {IntToString(y) : y \in YearProbes}
      [] f = "description" ->
            {<<>>, Undefined, SubSeq(TenChars, 1, 9), TenChars, TenChars \o <<"!">>}
      [] f = "seats" -> {<<>>, Undefined, <<"a">>, Filled.seats}
      [] f = "status" -> carStatuses
      [] f = "featured" -> {True, False, Undefined}
      [] OTHER -> {<<>>, Undefined, Num(5), <<" ">>, Filled[f]}

Changed1(d) == UNION {{[d EXCEPT ![f] = v] : v \in Probes(f)} : f \in Fields}
Changed2(d) == Changed1(d)

\* the filled form with at most two fields changed
ProbeDrafts == UNION {Changed2(d) : d \in Changed1(Filled)}

InitValidate ==
    /\ activeTab = "manual"
    /\ uploadedImages = <<>>
    /\ imageError = ""
    /\ imagePreview = Null
    /\ uploadedAiImage = "null"
    /\ draft \in ProbeDrafts
    /\ errors = <<>>
    /\ currentYear = FirstYear
    /\ isSubmitting = FALSE
    /\ batches = <<>>
    /\ aiReads = <<>>
    /\ toasts = <<>>
    /\ addCar = FetchIdle
    /\ processImage = FetchIdle
    /\ route = "create"

NextValidate ==
    \/ AdvanceYear
    \/ HandleSubmit

SpecValidate == InitValidate /\ [][NextValidate]_vars

-----------------------------------------------------------------------------
(* Properties of submission *)

\* what the schema asks of a draft, stated field by field
FieldPasses(d, f, now) ==
    CASE f = "year" ->
            /\ IsString(d.year)
            /\ ~isNaN(parseInt(d.year))
            /\ MinYear <= IntOf(parseInt(d.year))
            /\ IntOf(parseInt(d.year)) <= now + 1
      [] f = "description" -> IsString(d[f]) /\ Len(d[f]) >= MinDescription
      [] OTHER -> IsString(d[f]) /\ Len(d[f]) >= 1
PassesSchema(d, now) == \A f \in RequiredFields : FieldPasses(d, f, now)

\* a step that starts a create-car call, and the arguments of that call
CreateCalled == Len(addCar'.inflight) = Len(addCar.inflight) + 1
Sent == addCar'.inflight[Len(addCar'.inflight)]

\* C1: a step starts a create-car call only from a state whose image list is
\* non-empty and whose draft passes the schema (required fields present,
\* year in [1900, currentYear + 1], description of at least 10 characters).
SubmitCallsOnlyWhenValid ==
    [][CreateCalled =>
          (uploadedImages # <<>> /\ PassesSchema(draft, currentYear))]_vars

\* a create-car call is pending
CreateCallPending == addCar.inflight # <<>>

\* C2 as claimed: every submit with an empty image list, whatever the draft,
\* makes no call and leaves the image error set to the message.
EmptyListSubmitSetsImageError ==
    [][(HandleSubmit /\ uploadedImages = <<>>) =>
          (addCar' = addCar /\ imageError' = NoImageMessage)]_vars

\* C2 as amended: every submit with an empty image list makes no call; it
\* sets the image error to the message when the draft passes the schema, and
\* leaves the image error as it was when the draft fails it.
EmptyListSubmitBlocked ==
    [][(HandleSubmit /\ uploadedImages = <<>>) =>
          /\ addCar' = addCar
          /\ imageError' = IF PassesSchema(draft, currentYear)
                           THEN NoImageMessage ELSE imageError]_vars

\* a submit was blocked for want of an image: no file was ever dropped, so
\* only onSubmit can have set the message
BlockedForNoImage ==
    batches = <<>> /\ imageError = NoImageMessage /\ ~addCar.loading

\* C3: a submit of a draft that fails the schema makes no call, stores an
\* error for each failing field, and changes neither the draft nor the images.
InvalidSubmitAborts ==
    [][(HandleSubmit /\ ~PassesSchema(draft, currentYear)) =>
          /\ addCar' = addCar
          /\ errors' # <<>>
          /\ DOMAIN errors' =
                {f \in RequiredFields : ~FieldPasses(draft, f, currentYear)}
          /\ draft' = draft
          /\ uploadedImages' = uploadedImages]_vars

\* an invalid draft was submitted while images were present
InvalidSubmitWithImages ==
    errors # <<>> /\ uploadedImages # <<>> /\ ~addCar.loading

\* C4: on each validation, an integer year y is accepted exactly when
\* 1900 <= y <= currentYear + 1, with currentYear read at that validation.
YearRangeRule ==
    [][HandleSubmit =>
          \A y \in YearProbes :
              draft.year = IntToString(y) =>
                  (("year" \notin DOMAIN errors')
                      <=> (MinYear <= y /\ y <= currentYear + 1))]_vars

\* a year that became valid only when the calendar year advanced was accepted
\* (another field failed, so the errors show that a validation ran)
YearAcceptedAfterAdvance ==
    /\ currentYear > FirstYear
    /\ draft.year = IntToString(currentYear + 1)
    /\ errors # <<>>
    /\ "year" \notin DOMAIN errors

\* values known to satisfy the schema, chosen without consulting it
KnownValid(g) ==
    CASE g = "year" -> {Filled.year, IntToString(MinYear)}
      [] g = "description" -> {TenChars, TenChars \o <<"!">>}
      [] g = "seats" -> {<<>>, Undefined, <<"a">>, Filled.seats}
      [] g = "status" -> carStatuses
      [] g = "featured" -> {True, False, Undefined}
      [] OTHER -> {Filled[g], <<" ">>}
OnlyMissing(d, f) ==
    /\ d[f] \in {<<>>, Undefined}
    /\ \A g \in Fields \ {f} : d[g] \in KnownValid(g)

\* C5: validating a draft that is valid but for one required field, which is
\* empty or absent, gives an error for that field and for no other.
OneMissingOneError ==
    [][HandleSubmit =>
          \A f \in RequiredFields :
              OnlyMissing(draft, f) => DOMAIN errors' = {f}]_vars

\* a draft missing only its description was validated
OneMissingValidated ==
    /\ OnlyMissing(draft, "description")
    /\ DOMAIN errors = {"description"}

\* a JavaScript number that is a number
IsNumeric(v) == IsNumber(v) /\ v # NaN

\* C6: the carData of a create-car call has numeric year, price and mileage,
\* seats numeric or null (null when the seats field is empty), every other
\* field as in the draft, a status of the enumeration, and the images as they
\* stood at the submit, in order.
CarDataNumeric ==
    [][CreateCalled =>
          /\ IsNumeric(Sent.carData.year)
          /\ IsNumeric(Sent.carData.price)
          /\ IsNumeric(Sent.carData.mileage)
          /\ (Sent.carData.seats = Null \/ IsNumeric(Sent.carData.seats))
          /\ (draft.seats = <<>> => Sent.carData.seats = Null)
          /\ \A f \in Fields \ {"year", "price", "mileage", "seats"} :
                Sent.carData[f] = draft[f]
          /\ Sent.carData.status \in carStatuses
          /\ Sent.images = uploadedImages]_vars

-----------------------------------------------------------------------------
(* Properties of the image intake *)

OversizeCount(q) == Cardinality({i \in 1..Len(q) : q[i].size > MaxFileSize})
ToastsAbout(log, level, b) ==
    Cardinality({i \in 1..Len(log) : log[i].level = level /\ log[i].about = b})
LoadedCount(batch) ==
    Cardinality({i \in 1..Len(batch.reads) : batch.reads[i] = "loaded"})
AllLoaded(q, b) ==
    b <= Len(q) /\ LoadedCount(q[b]) = Len(q[b].validFiles)

\* the images of the completed drops, in the order of their completion
IsBatchSuccess(t) == t.level = "success" /\ t.about > 0
RECURSIVE ImagesOf(_)
ImagesOf(log) ==
    IF log = <<>> THEN <<>>
    ELSE batches[Head(log).about].newImages \o ImagesOf(Tail(log))
Appended == ImagesOf(SelectSeq(toasts, IsBatchSuccess))

\* C7: when the last read of a drop of N files, k of them oversize, has
\* completed, N - k images have been appended to the list and k warnings
\* have been issued for the drop, in whatever order the reads completed.
BatchCounts ==
    [][\A b \in 1..Len(batches') :
          (AllLoaded(batches', b) /\ ~AllLoaded(batches, b)) =>
              /\ Len(uploadedImages') = Len(uploadedImages)
                    + Len(batches'[b].files) - OversizeCount(batches'[b].files)
              /\ ToastsAbout(toasts', "error", b)
                    = OversizeCount(batches'[b].files)]_vars

\* a drop of three files, one oversize, whose second accepted file was read
\* first, is complete
MixedBatchLoaded ==
    \E b \in 1..Len(batches) :
        /\ Len(batches[b].files) = 3
        /\ OversizeCount(batches[b].files) = 1
        /\ AllLoaded(batches, b)
        /\ batches[b].validFiles[1] # batches[b].validFiles[2]
        /\ batches[b].newImages[1] = DataURL(batches[b].validFiles[2])

\* the data URLs of the files of a drop that have been read, as a bag
CountIn(q, x) == Cardinality({i \in 1..Len(q) : q[i] = x})
LoadedURLs(batch, x) ==
    Cardinality({i \in 1..Len(batch.reads) :
                    batch.reads[i] = "loaded" /\ DataURL(batch.validFiles[i]) = x})

\* C8: whatever the interleaving of the reads of overlapping drops, the
\* newImages of a drop holds exactly the images of its own completed reads,
\* each once, and while nothing has been removed the list is the images of
\* the completed drops, each drop's images together, drop after drop.
OverlapSafe ==
    /\ \A b \in 1..Len(batches) :
          /\ Len(batches[b].newImages) = LoadedCount(batches[b])
          /\ \A f \in Files :
                CountIn(batches[b].newImages, DataURL(f))
                    = LoadedURLs(batches[b], DataURL(f))
    /\ Len(uploadedImages) = Len(Appended) => uploadedImages = Appended

\* two drops overlapped: the second, dropped while the two reads of the first
\* were pending, completed first, and both are in the list
OverlappedBothLoaded ==
    /\ Len(batches) = 2
    /\ Len(batches[1].validFiles) = 2
    /\ Len(batches[2].validFiles) = 1
    /\ AllLoaded(batches, 1) /\ AllLoaded(batches, 2)
    /\ uploadedImages = batches[2].newImages \o batches[1].newImages

RECURSIVE IsSubsequence(_, _)
IsSubsequence(a, b) ==
    IF a = <<>> THEN TRUE
    ELSE IF b = <<>> THEN FALSE
    ELSE IF Head(a) = Head(b) THEN IsSubsequence(Tail(a), Tail(b))
    ELSE IsSubsequence(a, Tail(b))

\* C9: the list holds images of completed drops only (a drop with a read
\* still pending has none of its images in it), and a drop with accepted
\* files has one success notification once all its reads have completed and
\* none before.
BatchAtomic ==
    /\ IsSubsequence(uploadedImages, Appended)
    /\ \A b \in 1..Len(batches) :
          ToastsAbout(toasts, "success", b) =
              IF batches[b].validFiles # <<>> /\ AllLoaded(batches, b)
              THEN 1 ELSE 0

\* one file of a drop of two has been read, the other has not, and the list
\* is still empty
HalfRead ==
    \E b \in 1..Len(batches) :
        /\ Len(batches[b].validFiles) = 2
        /\ LoadedCount(batches[b]) = 1
        /\ \E i \in 1..2 : batches[b].reads[i] = "reading"
        /\ uploadedImages = <<>>

\* C10: removeImage(i) with 0 <= i < length shortens the list by one, keeps
\* the elements before position i where they were and moves those after it
\* down by one.
RemoveShifts ==
    [][\A i \in 0..(Len(uploadedImages) - 1) :
          removeImage(i) =>
              /\ Len(uploadedImages') = Len(uploadedImages) - 1
              /\ \A j \in 1..Len(uploadedImages') :
                    uploadedImages'[j] =
                        IF j <= i THEN uploadedImages[j] ELSE uploadedImages[j + 1]]_vars

\* an image has been removed from a list of three different-looking entries
RemovedOneOfThree ==
    /\ Len(Appended) = 3
    /\ Len(uploadedImages) = 2
    /\ uploadedImages[1] # uploadedImages[2]

-----------------------------------------------------------------------------
(* Properties of removal and of the AI extraction *)

\* C11: every removal, by index or of the AI preview image, that leaves the
\* image list empty sets the image error to the at-least-one-image message.
RemovalRearmsImageError ==
    [][((RemoveAiImage \/ \E i \in 0..(Len(uploadedImages) - 1) : removeImage(i))
            /\ uploadedImages # <<>> /\ uploadedImages' = <<>>)
          => imageError' = NoImageMessage]_vars

\* the fields an extraction response lists, and what is written for each
Listed == {"make", "model", "year", "color", "bodyType", "fuelType", "price",
           "mileage", "transmission", "description"}
Present(r, f) == r.data[f] # Undefined
Written(r, f) == IF f = "year" THEN toString(r.data.year) ELSE r.data[f]

\* C12: a successful extraction overwrites the draft fields present in its
\* response and no other: a listed field absent from the response, seats,
\* status, featured, the image list and the image error stay as they were.
ExtractionWritesPresentOnly ==
    [][\A r \in ExtractResponses :
          (ProcessImageResolve(r) /\ r.success /\ r.hasData) =>
              /\ \A f \in Listed :
                    draft'[f] = IF Present(r, f) THEN Written(r, f) ELSE draft[f]
              /\ \A f \in Fields \ Listed : draft'[f] = draft[f]
              /\ uploadedImages' = uploadedImages
              /\ imageError' = imageError]_vars

\* a step that settles an extraction call, and one that settles it with an error
ExtractionSettled == Len(processImage'.inflight) < Len(processImage.inflight)
ExtractionThrew == ExtractionSettled /\ processImage'.error # "null"

\* C13: when an extraction call ends in an error, one error message is shown
\* and the draft, the image list and the active tab are left as they were.
ExtractionErrorKeepsState ==
    [][ExtractionThrew =>
          /\ Len(toasts') = Len(toasts) + 1
          /\ toasts'[Len(toasts')].level = "error"
          /\ toasts'[Len(toasts')].text = "Failed to process car image"
          /\ draft' = draft
          /\ uploadedImages' = uploadedImages
          /\ activeTab' = activeTab]_vars

\* an extraction failed on the AI tab over a filled draft and an image
ExtractionErrorShown ==
    /\ toasts # <<>>
    /\ toasts[Len(toasts)].text = "Failed to process car image"
    /\ activeTab = "ai"
    /\ draft = Filled
    /\ uploadedImages # <<>>

\* C14: the pending extraction calls change only by one call settling or by
\* one call starting; a call starts only in a step of processWithAI that
\* settles nothing, only while a file is stored, and it carries that one
\* file whatever the image list holds.
OneImagePerExtraction ==
    [][/\ processImage'.inflight \in
            {processImage.inflight,
             Append(processImage.inflight, uploadedAiImage),
             SubSeq(processImage.inflight, 2, Len(processImage.inflight))}
       /\ Len(processImage'.inflight) > Len(processImage.inflight) =>
            /\ uploadedAiImage # "null"
            /\ processImage'.inflight[Len(processImage'.inflight)] \in
                  {file.name : file \in Files}
            /\ toasts' = toasts /\ draft' = draft]_vars

\* an extraction call is pending while the image list holds two images
ExtractionPendingTwoImages ==
    /\ Len(processImage.inflight) = 1
    /\ processImage.inflight[1] = uploadedAiImage
    /\ Len(uploadedImages) = 2

\* C15: whenever an extraction succeeds, in the step that writes the draft
\* fields the active tab becomes the manual one, whichever tab was active.
ExtractionSwitchesToManual ==
    [][ExtractionSettled =>
          \A r \in ExtractResponses :
              (r.success /\ r.hasData /\ ProcessImageResolve(r)) =>
                  /\ activeTab' = "manual"
                  /\ \A f \in Listed : draft'[f] = Written(r, f)]_vars

\* the details of an extraction are in the draft and the manual tab is shown
ExtractedOnManualTab ==
    /\ toasts # <<>>
    /\ toasts[Len(toasts)].text = "Successfully extracted car details"
    /\ activeTab = "manual"
    /\ draft.make = ExtractedCar.make
    /\ draft.year = <<"2", "0", "2", "1">>

\* two responses that differ at most in their confidence
SameButConfidence(r1, r2) ==
    /\ r1.success = r2.success
    /\ r1.hasData = r2.hasData
    /\ [r1.data EXCEPT !.confidence = r2.data.confidence] = r2.data

\* C18: the step taken on a response leaves the draft, the stored validation
\* errors and the image list exactly as the step on a response differing
\* only in its confidence would: the draft and its validation result are
\* those of the other response, the errors and the image list are untouched.
ConfidenceIgnored ==
    [][ExtractionSettled =>
          \A r1, r2 \in ExtractResponses :
              (SameButConfidence(r1, r2) /\ r1.success /\ r1.hasData
                    /\ ProcessImageResolve(r1)) =>
                  /\ draft' = ExtractedDraft(draft, r2.data)
                  /\ carFormSchema(draft', currentYear)
                        = carFormSchema(ExtractedDraft(draft, r2.data), currentYear)
                  /\ errors' = errors
                  /\ uploadedImages' = uploadedImages]_vars

\* details extracted with a confidence of 46% are in the draft
UnsureExtractionWritten ==
    /\ toasts # <<>>
    /\ toasts[Len(toasts)].text = "Successfully extracted car details"
    /\ toasts[Len(toasts)].about = 46
    /\ draft.description = ExtractedCar.description

-----------------------------------------------------------------------------
(* Properties of the outcome of a call *)

\* a step that settles a create-car call, and whether the call succeeded
CreateSettled == Len(addCar'.inflight) < Len(addCar.inflight)
CreateSucceeded ==
    CreateSettled /\ addCar'.error = "null" /\ addCar'.data = "success"
ErrorShown ==
    /\ Len(toasts') = Len(toasts) + 1
    /\ toasts'[Len(toasts')].level = "error"

\* C16: a create-car call that succeeds redirects to the listing; one that
\* fails shows an error, does not redirect, and leaves the draft and the
\* image list as they were.
CreateOutcomeHandled ==
    [][CreateSettled =>
          IF CreateSucceeded
          THEN route' = "list"
          ELSE /\ ErrorShown
               /\ route' = route
               /\ draft' = draft
               /\ uploadedImages' = uploadedImages]_vars

\* the messages that tell the outcome of a call
OutcomeTexts == {"Car added successfully",
                 "Successfully extracted car details",
                 "Failed to process car image"}
OutcomeShown ==
    /\ Len(toasts') = Len(toasts) + 1
    /\ toasts'[Len(toasts')].text \in OutcomeTexts \/ toasts'[Len(toasts')].level = "error"

\* C17: every step that settles a create-car or an extraction call shows
\* exactly one message for its outcome, and no other step shows an outcome
\* message: each call's outcome is shown once, never zero times or twice.
OutcomeShownOnce ==
    [][IF CreateSettled \/ ExtractionSettled
       THEN OutcomeShown
       ELSE \A i \in (Len(toasts) + 1)..Len(toasts') :
               toasts'[i].text \notin OutcomeTexts]_vars

\* a step of a submission that succeeded, in either form, and of one that failed
SimulatedSucceeded ==
    /\ Len(toasts') = Len(toasts) + 1
    /\ toasts'[Len(toasts')].text = "Car added successfully!"
SimulatedFailed ==
    /\ Len(toasts') = Len(toasts) + 1
    /\ toasts'[Len(toasts')].text = "Failed to add car. Please try again."
SubmissionFailed == SimulatedFailed \/ (CreateSettled /\ ~CreateSucceeded)
Kept == draft' = draft /\ uploadedImages' = uploadedImages

\* C19 as claimed: after a successful submission every field of the draft is
\* back to its default and the image list is empty; after a failed one both
\* are unchanged.
SuccessResetsDraft ==
    [][/\ (SimulatedSucceeded \/ CreateSucceeded) =>
              (draft' = defaultValues /\ uploadedImages' = <<>>)
       /\ SubmissionFailed => Kept]_vars

\* C19 as amended: a successful simulated submission (the earlier form) puts
\* every field of the draft back to its default and empties the image list;
\* a successful create-car call leaves both as they are and goes to the
\* listing; a failed submission of either form leaves both unchanged.
SuccessDiscardsDraft ==
    [][/\ SimulatedSucceeded =>
              (draft' = defaultValues /\ uploadedImages' = <<>>)
       /\ CreateSucceeded => (Kept /\ route' = "list")
       /\ SubmissionFailed => Kept]_vars

\* the earlier form has been submitted with success and is empty again
SimulatedFormReset ==
    /\ route = "simulated"
    /\ toasts # <<>>
    /\ toasts[Len(toasts)].text = "Car added successfully!"
    /\ draft = defaultValues
    /\ uploadedImages = <<>>

\* C20: a file is refused exactly when its size is over 5242880 bytes, on
\* the manual drop zone (it is left out of the files read and warned about)
\* and on the AI drop zone (it is not stored and not read).
SizeLimitExact ==
    [][/\ \A q \in FileSeqs(MaxFiles) :
            OnMultiImagesDrop(q) =>
                /\ \A i \in 1..Len(q) :
                      (q[i].size > 5242880)
                          <=> (CountIn(batches'[Len(batches')].validFiles, q[i]) = 0)
                /\ Len(toasts') - Len(toasts) =
                      Cardinality({i \in 1..Len(q) : q[i].size > 5242880})
       /\ \A file \in Files :
            OnAiImageDrop(file) =>
                /\ (file.size > 5242880) <=> (aiReads' = aiReads)
                /\ (file.size > 5242880) <=> (toasts'[Len(toasts')].level = "error")
                /\ (file.size <= 5242880) =>
                      (uploadedAiImage' = file.name /\ aiReads' = Append(aiReads, file))]_vars

\* a file of exactly 5 MiB was taken on both zones and a larger one refused
\* on the AI zone
LimitFileTaken ==
    /\ Len(batches) = 1
    /\ batches[1].validFiles = <<LimitFile>>
    /\ uploadedAiImage = LimitFile.name
    /\ \E i \in 1..Len(toasts) : toasts[i].text = "Image exceeds 5MB limit"

\* ---------------------------------------------------------------------------
\* C30  the submitting flag of the simulated-submission form
\* ---------------------------------------------------------------------------

\* a submit of the earlier form finds the image list empty
SimulatedSubmitBlocked ==
    /\ route = "simulated"
    /\ uploadedImages = <<>>
    /\ errors' = <<>>
    /\ imageError' = NoImageMessage

\* C30: in the simulated-submission form the submitting flag is true only
\* while onSubmit runs after the image check (the draft was valid and the list
\* had an image); an onSubmit that set it sets it back to false, on the
\* success path and on the failure path; a submit blocked for zero images
\* never sets it.
SubmittingFlagReturns ==
    /\ [](isSubmitting =>
             (route = "simulated" /\ uploadedImages # <<>> /\ errors = <<>>))
    /\ [][SimulatedSubmitBlocked => ~isSubmitting']_vars
    /\ [][(isSubmitting /\ (SimulatedSucceeded \/ SimulatedFailed))
              => ~isSubmitting']_vars
    /\ (isSubmitting ~> ~isSubmitting)

\* a second onSubmit is running after the outcome of a first one was shown
SecondSubmitRunning ==
    /\ isSubmitting
    /\ Len(toasts) = 1
    /\ imageError = ""

\* ---------------------------------------------------------------------------
\* C21  two entry modes over one draft and one image list
\* ---------------------------------------------------------------------------

\* the user picks the other tab (not the switch an extraction makes)
ModeSwitched == activeTab' # activeTab /\ ~ExtractionSettled

\* C21: the active mode is always exactly one of manual and ai; both modes
\* work on the one draft and the one image list, so what the AI tab put there
\* is what the manual tab has; switching mode changes neither the draft, the
\* image list nor the image error.
ModeSwitchKeepsForm ==
    [][/\ activeTab \in {"manual", "ai"} /\ activeTab' \in {"manual", "ai"}
       /\ ModeSwitched =>
             /\ draft' = draft
             /\ uploadedImages' = uploadedImages
             /\ imageError' = imageError]_vars

\* the manual tab is open with the image that was uploaded on the AI tab
AiImageOnManualTab ==
    /\ activeTab = "manual"
    /\ imagePreview # Null
    /\ \E i \in 1..Len(uploadedImages) : uploadedImages[i] = imagePreview
    /\ Extracted = 0

\* ---------------------------------------------------------------------------
\* C22  removing the AI preview image from the shared list
\* ---------------------------------------------------------------------------

\* the X button of the AI preview has been pressed
AiImageRemoved == imagePreview # Null /\ imagePreview' = Null

\* C22: removing the AI preview image takes out of the list the one entry the
\* AI upload added, and every image of the completed manual drops stays where
\* it was, also when one of them has the same data URL as the preview.
AiRemovalKeepsManualImages ==
    [][AiImageRemoved =>
          /\ Len(uploadedImages') < Len(uploadedImages)
          /\ IsSubsequence(Appended, uploadedImages')]_vars

\* ---------------------------------------------------------------------------
\* C27  the AI image is sent with the car
\* ---------------------------------------------------------------------------

\* a file dropped on the AI zone has been refused for its size
AiDropRefused ==
    /\ Len(toasts') = Len(toasts) + 1
    /\ toasts'[Len(toasts')].text = "Image exceeds 5MB limit"

\* the read of AI drop number k has completed
AiReadDone(k) == aiReads' = RemoveAt(aiReads, k)

HasFailedRead(batch) ==
    \E i \in 1..Len(batch.reads) : batch.reads[i] = "failed"

\* C23: a drop with a failed read never has its images appended and never
\* gets a success notification (the list holds images of other, completed
\* drops only); a failure, and a later read of the same drop, change neither
\* the list, the notifications nor any other drop.
FailedReadHoldsBatch ==
    [][\A b \in 1..Len(batches') :
          HasFailedRead(batches'[b]) =>
              /\ ToastsAbout(toasts', "success", b) = 0
              /\ Len(batches'[b].newImages) < Len(batches'[b].validFiles)
              /\ IsSubsequence(uploadedImages', Appended')
              /\ (b <= Len(batches) /\ batches'[b] # batches[b]) =>
                    /\ uploadedImages' = uploadedImages
                    /\ toasts' = toasts
                    /\ \A c \in 1..Len(batches) : c # b => batches'[c] = batches[c]]_vars

\* one read of a drop of two failed and the other completed; a later drop
\* completed and its image is the only one in the list
FailedBatchLeftOut ==
    /\ Len(batches) = 2
    /\ Len(batches[1].validFiles) = 2
    /\ HasFailedRead(batches[1])
    /\ LoadedCount(batches[1]) = 1
    /\ AllLoaded(batches, 2)
    /\ Len(batches[2].validFiles) = 1
    /\ uploadedImages = batches[2].newImages

\* ---------------------------------------------------------------------------
\* C26  where the images of a completed manual drop go
\* ---------------------------------------------------------------------------

\* the last read of drop b has completed
BatchCompleted(b) == AllLoaded(batches', b) /\ ~AllLoaded(batches, b)

\* C26: the completion of a manual drop keeps the images already in the list
\* as they are and where they are, and puts the images of the drop after
\* them in the order in which their reads completed: each read puts its image
\* at the end of the drop's own images.
BatchAppendedInReadOrder ==
    [][\A b \in 1..Len(batches) :
          /\ \A i \in 1..Len(batches[b].validFiles) :
                (batches[b].reads[i] = "reading" /\ batches'[b].reads[i] = "loaded") =>
                    batches'[b].newImages
                        = Append(batches[b].newImages,
                                 DataURL(batches[b].validFiles[i]))
          /\ (BatchCompleted(b) /\ batches[b].validFiles # <<>>) =>
                uploadedImages' = uploadedImages \o batches'[b].newImages]_vars

\* a drop of two different files completed after an image was in the list,
\* and its images follow it in the order of the reads, the second file first
ReadOrderKept ==
    /\ Len(batches) = 2
    /\ AllLoaded(batches, 1) /\ AllLoaded(batches, 2)
    /\ Len(batches[1].validFiles) = 1
    /\ Len(batches[2].validFiles) = 2
    /\ batches[2].validFiles[1] # batches[2].validFiles[2]
    /\ batches[2].validFiles[1] # batches[1].validFiles[1]
    /\ uploadedImages = <<DataURL(batches[1].validFiles[1]),
                          DataURL(batches[2].validFiles[2]),
                          DataURL(batches[2].validFiles[1])>>

\* ---------------------------------------------------------------------------
\* C28  a manual drop of oversize files only
\* ---------------------------------------------------------------------------

AllOversize(q) == OversizeCount(q) = Len(q)

\* C28: a manual drop whose files all exceed the size limit starts no read,
\* leaves the image list and the image error as they are and issues one
\* warning per file; no success notification is ever issued for it.
OversizeOnlyDropIgnored ==
    [][/\ (Len(batches') = Len(batches) + 1
             /\ AllOversize(batches'[Len(batches')].files)) =>
                /\ batches'[Len(batches')].reads = <<>>
                /\ uploadedImages' = uploadedImages
                /\ imageError' = imageError
                /\ Len(toasts') = Len(toasts) + Len(batches'[Len(batches')].files)
                /\ ToastsAbout(toasts', "error", Len(batches'))
                      = Len(batches'[Len(batches')].files)
       /\ \A b \in 1..Len(batches') :
             AllOversize(batches'[b].files) =>
                 ToastsAbout(toasts', "success", b) = 0]_vars

\* two oversize files were dropped together while the image error was shown
\* for a list emptied by a removal
OversizeDropAfterRemoval ==
    \E b \in 1..Len(batches) :
        /\ b > 1
        /\ Len(batches[b].files) = 2
        /\ AllOversize(batches[b].files)
        /\ ToastsAbout(toasts, "error", b) = 2
        /\ imageError = NoImageMessage
        /\ uploadedImages = <<>>

\* ---------------------------------------------------------------------------
\* C29  one create-car call at a time
\* ---------------------------------------------------------------------------

\* C29: at most one create-car call is in flight; the submit button is
\* disabled exactly while one is (addCarLoading), so a submit starts a call
\* only when none is pending, the previous one having resolved or thrown.
OneCreateCallAtATime ==
    [][/\ Len(addCar'.inflight) <= 1
       /\ addCar'.loading <=> addCar'.inflight # <<>>
       /\ CreateCalled => (~addCar.loading /\ addCar.inflight = <<>>)]_vars

\* a second create-car call is pending after the first one was answered
\* with a failure
SecondCreateCallPending ==
    /\ addCar.loading
    /\ Len(addCar.inflight) = 1
    /\ addCar.data = "failure"

\* ---------------------------------------------------------------------------
\* C24  the AI preview and the file stored for extraction
\* ---------------------------------------------------------------------------

\* C24: the image shown as the AI preview is the data URL of the file stored
\* for extraction, also when two AI drops overlap and whichever read
\* completes first, and the image list holds no AI image but the previewed
\* one.
PreviewIsStoredFile ==
    /\ imagePreview # Null =>
          \E f \in Files : f.name = uploadedAiImage /\ DataURL(f) = imagePreview
    /\ Len(uploadedImages) <= 1
    /\ \A i \in 1..Len(uploadedImages) : uploadedImages[i] = imagePreview

\* ---------------------------------------------------------------------------
\* C25  the image error and the image list
\* ---------------------------------------------------------------------------

\* C25: the image error is set only while the image list is empty (a submit
\* or a removal found it empty): whenever the list is non-empty, after a
\* manual drop or an AI image upload has completed, the image error is
\* cleared.
ImageErrorOnlyWhenEmpty == imageError # "" => uploadedImages = <<>>

=============================================================================
